---- MODULE Spec2Model ----
(***************************************************************************)
(* Model of the question-pool CSV validator (src/src/utilities/csv.ts):    *)
(* the line tokenizer parseCsvLineWithErrors, run one loop iteration per   *)
(* step, and the document validator validateCsvString, run one physical    *)
(* line per step.  A JavaScript string is a sequence of one-character      *)
(* strings; a field name inside an error message is a record that keeps    *)
(* the parts the template literal interpolates.                            *)
(***************************************************************************)
EXTENDS Integers, Sequences, FiniteSets, TLC

VARIABLES
    call,        \* which exported function runs: "parse" or "validate"
    pc,          \* position inside it: "loop" or "done"
    line,        \* parseCsvLineWithErrors: argument line
    hdr,         \* parseCsvLineWithErrors: argument header (may be absent)
    tok,         \* parseCsvLineWithErrors: locals and result arrays
    csvContent,  \* validateCsvString: argument
    lines,       \* validateCsvString: csvContent.split(/\r?\n/)
    i,           \* validateCsvString: loop index (0-based)
    locals          \* validateCsvString: locals of lines 96-103

vars == <<call, pc, line, hdr, tok, csvContent, lines, i, locals>>

tokVars == <<line, hdr, tok>>

valVars == <<csvContent, lines, i, locals>>

\* the locals of validateCsvString by their names
errors == locals.errors
expectedNumFields == locals.expectedNumFields
headerChecked == locals.headerChecked
header == locals.header
correctFieldIndexes == locals.correctFieldIndexes
choiceFieldMap == locals.choiceFieldMap
correctFieldMap == locals.correctFieldMap

(***************************************************************************)
(* Bounds of the explored inputs.                                          *)
(***************************************************************************)
MaxLineLen == 5   \* longest line handed to the tokenizer on its own
MaxLines == 3     \* most physical lines of a document

(***************************************************************************)
(* JavaScript string primitives over sequences of characters.              *)
(***************************************************************************)
QUOTE == "\""
COMMA == ","
CR == "\r"
LF == "\n"

Lower == <<"a","b","c","d","e","f","g","h","i","j","k","l","m",
           "n","o","p","q","r","s","t","u","v","w","x","y","z">>
Upper == <<"A","B","C","D","E","F","G","H","I","J","K","L","M",
           "N","O","P","Q","R","S","T","U","V","W","X","Y","Z">>
Digits == <<"0","1","2","3","4","5","6","7","8","9">>

\* String.prototype.toUpperCase on one character
UpperChar(c) ==
    IF \E k \in 1..26 : Lower[k] = c
    THEN Upper[CHOOSE k \in 1..26 : Lower[k] = c]
    ELSE c

ToUpperCase(s) == [k \in 1..Len(s) |-> UpperChar(s[k])]

\* the white space String.prototype.trim removes (of the characters modelled)
IsSpace(c) == c \in {" ", "\t", CR, LF}

Trim(s) ==
    LET keep == {k \in 1..Len(s) : ~IsSpace(s[k])}
        Min(S) == CHOOSE x \in S : \A y \in S : x <= y
        Max(S) == CHOOSE x \in S : \A y \in S : x >= y
    IN  IF keep = {} THEN <<>> ELSE SubSeq(s, Min(keep), Max(keep))

Includes(s, c) == \E k \in 1..Len(s) : s[k] = c

IsDigit(c) == \E k \in 1..10 : Digits[k] = c

DigitValue(c) == (CHOOSE k \in 1..10 : Digits[k] = c) - 1

\* parseInt(s, 10) of a non-empty string of digits
RECURSIVE ParseInt(_)
ParseInt(s) ==
    IF s = <<>> THEN 0
    ELSE 10 * ParseInt(SubSeq(s, 1, Len(s) - 1)) + DigitValue(s[Len(s)])

\* String.prototype.replace(/""/g, '"'): leftmost, non-overlapping
RECURSIVE ReplaceDoubledQuotes(_)
ReplaceDoubledQuotes(s) ==
    IF Len(s) < 2 THEN s
    ELSE IF s[1] = QUOTE /\ s[2] = QUOTE
         THEN <<QUOTE>> \o ReplaceDoubledQuotes(SubSeq(s, 3, Len(s)))
         ELSE <<s[1]>> \o ReplaceDoubledQuotes(Tail(s))

\* line.slice(from, to) with 0-based, end-exclusive offsets
Slice(s, from, to) == SubSeq(s, from + 1, to)

\* line[k] with a 0-based index; "undefined" past the end
CharAt(s, k) == IF k >= 0 /\ k < Len(s) THEN s[k + 1] ELSE "undefined"

(***************************************************************************)
(* Field names in error messages.                                          *)
(***************************************************************************)
HeaderName(text) == [kind |-> "header", text |-> text, n |-> 0]
Placeholder(n) == [kind |-> "#", text |-> <<>>, n |-> n]
RowName == [kind |-> "Row", text |-> <<>>, n |-> 0]
CorrectName(x) == [kind |-> "correct", text |-> <<>>, n |-> x]
ChoiceName(x) == [kind |-> "choice", text |-> <<>>, n |-> x]

\* header?.[idx] ?? `#${n}` ; h is [given, names], idx is 0-based
NameOrPlaceholder(h, idx, n) ==
    IF h.given /\ idx >= 0 /\ idx < Len(h.names)
    THEN HeaderName(h.names[idx + 1])
    ELSE Placeholder(n)

MsgUnescapedQuote == "Unescaped quote found in unquoted field"
MsgUnclosed == "Unclosed quoted field"
MsgInconsistent == "Inconsistent number of fields"
MsgMustBeQuoted == "Field containing comma, CR, LF, or double quote must be quoted"
MsgImproperEscape == "Field has improperly escaped double quotes"
MsgTooLong == "Field exceeds maximum length of 1000 characters"
MsgTrueOrFalse == "Value must be either TRUE or FALSE"
MsgNeedTrue == "At least one correct{x} field must be TRUE"
MsgCorrectEmpty == "Field must not be empty when choice{x} is not empty"
MsgChoiceEmpty == "Field must not be empty when correct{x} is not empty"

(***************************************************************************)
(* parseCsvLineWithErrors: locals after the declarations of lines 20-30.   *)
(* commas and openAtEnd are history fields the code does not have: the     *)
(* number of commas met outside an open quote, and whether the scan was    *)
(* inside an open quote when it met the end of the line.                   *)
(***************************************************************************)
TokInit ==
    [i |-> 0, fieldIndex |-> 0, inQuotes |-> FALSE, fieldQuoted |-> FALSE,
     current |-> <<>>, fieldStart |-> 0,
     result |-> <<>>, quotedFields |-> <<>>, parseErrors |-> <<>>,
     originalFields |-> <<>>,
     commas |-> 0, openAtEnd |-> FALSE]

\* lines 40-46: the value pushed for a field
FieldValue(current, fieldQuoted) ==
    IF fieldQuoted /\ current # <<>>
       /\ current[1] = QUOTE /\ current[Len(current)] = QUOTE
    THEN ReplaceDoubledQuotes(Slice(current, 1, Len(current) - 1))
    ELSE current

\* line 34: the end-of-field test
AtEndOfField(s, ln) ==
    s.i = Len(ln) \/ (CharAt(ln, s.i) = COMMA /\ ~s.inQuotes)

\* lines 35-57, with no field pushed for an empty last field
EndOfFieldStep_DropsEmptyLast(s, ln) ==
    IF s.i = Len(ln) /\ s.fieldStart = s.i
    THEN [s EXCEPT !.current = <<>>, !.fieldQuoted = FALSE, !.inQuotes = FALSE,
                   !.fieldStart = s.i + 1, !.fieldIndex = @ + 1, !.i = @ + 1,
                   !.openAtEnd = s.inQuotes]
    ELSE [s EXCEPT
        !.originalFields = Append(@, Slice(ln, s.fieldStart, s.i)),
        !.result = Append(@, FieldValue(s.current, s.fieldQuoted)),
        !.quotedFields = Append(@, s.fieldQuoted),
        !.current = <<>>,
        !.fieldQuoted = FALSE,
        !.inQuotes = FALSE,
        !.fieldStart = s.i + 1,
        !.fieldIndex = @ + 1,
        !.i = @ + 1,
        !.commas = IF s.i < Len(ln) THEN @ + 1 ELSE @,
        !.openAtEnd = IF s.i = Len(ln) THEN s.inQuotes ELSE @]

\* lines 35-57, with the raw substring cut by the length of the value
EndOfFieldStep_SliceByLength(s, ln) ==
    [s EXCEPT
        !.originalFields =
            Append(@, Slice(ln, s.fieldStart, s.fieldStart + Len(s.current))),
        !.result = Append(@, FieldValue(s.current, s.fieldQuoted)),
        !.quotedFields = Append(@, s.fieldQuoted),
        !.current = <<>>,
        !.fieldQuoted = FALSE,
        !.inQuotes = FALSE,
        !.fieldStart = s.i + 1,
        !.fieldIndex = @ + 1,
        !.i = @ + 1,
        !.commas = IF s.i < Len(ln) THEN @ + 1 ELSE @,
        !.openAtEnd = IF s.i = Len(ln) THEN s.inQuotes ELSE @]

\* lines 35-57
EndOfFieldStep(s, ln) ==
    [s EXCEPT
        !.originalFields = Append(@, Slice(ln, s.fieldStart, s.i)),
        !.result = Append(@, FieldValue(s.current, s.fieldQuoted)),
        !.quotedFields = Append(@, s.fieldQuoted),
        !.current = <<>>,
        !.fieldQuoted = FALSE,
        !.inQuotes = FALSE,
        !.fieldStart = s.i + 1,
        !.fieldIndex = @ + 1,
        !.i = @ + 1,
        !.commas = IF s.i < Len(ln) THEN @ + 1 ELSE @,
        !.openAtEnd = IF s.i = Len(ln) THEN s.inQuotes ELSE @]

\* lines 61-63
OpenQuoteStep(s) ==
    [s EXCEPT !.inQuotes = TRUE, !.fieldQuoted = TRUE, !.i = @ + 1]

\* lines 64-66
EscapedQuoteStep(s) ==
    [s EXCEPT !.current = Append(@, QUOTE), !.i = @ + 2]

\* lines 67-68
CloseQuoteStep(s) ==
    [s EXCEPT !.inQuotes = FALSE, !.i = @ + 1]

\* lines 69-76, with the stray quote kept in the value
UnescapedQuoteStep_KeepsQuote(s, h) ==
    [s EXCEPT
        !.parseErrors = Append(@,
            [name |-> NameOrPlaceholder(h, s.fieldIndex, s.fieldIndex + 1),
             msg |-> MsgUnescapedQuote,
             field |-> s.fieldIndex + 1]),
        !.current = Append(@, QUOTE),
        !.i = @ + 1]

\* lines 69-76
UnescapedQuoteStep(s, h) ==
    [s EXCEPT
        !.parseErrors = Append(@,
            [name |-> NameOrPlaceholder(h, s.fieldIndex, s.fieldIndex + 1),
             msg |-> MsgUnescapedQuote,
             field |-> s.fieldIndex + 1]),
        !.i = @ + 1]

\* lines 77-80
AppendCharStep(s, ln) ==
    [s EXCEPT !.current = Append(@, CharAt(ln, s.i)), !.i = @ + 1]

\* lines 83-92: after the loop
CheckUnclosed(s, h) ==
    IF s.inQuotes
    THEN [s EXCEPT !.parseErrors = Append(@,
            [name |-> NameOrPlaceholder(h, s.fieldIndex - 1, s.fieldIndex),
             msg |-> MsgUnclosed,
             field |-> s.fieldIndex])]
    ELSE s

\* which branch of the loop body (lines 33-80) runs
Branch(s, ln) ==
    IF AtEndOfField(s, ln) THEN "endOfField"
    ELSE IF CharAt(ln, s.i) = QUOTE
    THEN IF ~s.inQuotes /\ s.current = <<>> THEN "openQuote"
         ELSE IF s.inQuotes /\ CharAt(ln, s.i + 1) = QUOTE THEN "escapedQuote"
         ELSE IF s.inQuotes THEN "closeQuote"
         ELSE "unescapedQuote"
    ELSE "appendChar"

\* one iteration of the while loop
LoopStep(s, ln, h) ==
    LET b == Branch(s, ln)
    IN  CASE b = "endOfField" -> EndOfFieldStep(s, ln)
          [] b = "openQuote" -> OpenQuoteStep(s)
          [] b = "escapedQuote" -> EscapedQuoteStep(s)
          [] b = "closeQuote" -> CloseQuoteStep(s)
          [] b = "unescapedQuote" -> UnescapedQuoteStep(s, h)
          [] OTHER -> AppendCharStep(s, ln)

\* the whole function: the loop to its exit, then lines 83-92
RECURSIVE RunLoop(_, _, _)
RunLoop(s, ln, h) ==
    IF s.i <= Len(ln) THEN RunLoop(LoopStep(s, ln, h), ln, h)
    ELSE CheckUnclosed(s, h)

parseCsvLineWithErrors(ln, h) ==
    LET s == RunLoop(TokInit, ln, h)
    IN  [row |-> s.result, parseErrors |-> s.parseErrors,
         quotedFields |-> s.quotedFields, originalFields |-> s.originalFields]

(***************************************************************************)
(* validateCsvString: helpers.                                             *)
(***************************************************************************)
MaxFieldLength == 1000

RECURSIVE Flatten(_)
Flatten(ss) == IF ss = <<>> THEN <<>> ELSE Head(ss) \o Flatten(Tail(ss))

\* the keys of an object with integer-like keys, in for-in order (ascending)
RECURSIVE SortedKeys(_)
SortedKeys(S) ==
    IF S = {} THEN <<>>
    ELSE LET m == CHOOSE x \in S : \A y \in S : x <= y
         IN  <<m>> \o SortedKeys(S \ {m})

\* csvContent.split(/\r?\n/)
RECURSIVE Split(_)
Split(s) ==
    IF ~Includes(s, LF) THEN <<s>>
    ELSE LET p == CHOOSE k \in 1..Len(s) :
                      s[k] = LF /\ \A m \in 1..(k - 1) : s[m] # LF
             e == IF p > 1 /\ s[p - 1] = CR THEN p - 2 ELSE p - 1
         IN  <<SubSeq(s, 1, e)>> \o Split(SubSeq(s, p + 1, Len(s)))

\* line 107, without the trim
IsBlankLine_NoTrim(ln) == ln = <<>>

\* line 107: line.trim() === ""
IsBlankLine(ln) == Trim(ln) = <<>>

\* /^correct\d+$/i and /^choice(\d+)$/i on name.trim(); prefix is upper case
MatchesNumbered(name, prefix) ==
    LET t == ToUpperCase(Trim(name))
    IN  /\ Len(t) > Len(prefix)
        /\ SubSeq(t, 1, Len(prefix)) = prefix
        /\ \A k \in (Len(prefix) + 1)..Len(t) : IsDigit(t[k])

\* parseInt(match[1], 10)
NumberOf(name, prefix) ==
    LET t == Trim(name) IN ParseInt(SubSeq(t, Len(prefix) + 1, Len(t)))

CORRECT == <<"C","O","R","R","E","C","T">>
CHOICE == <<"C","H","O","I","C","E">>

\* lines 117-119: 0-based indexes of the correct<N> columns, ascending
CorrectIndexesOf(h) ==
    SortedKeys({k \in 0..(Len(h) - 1) : MatchesNumbered(h[k + 1], CORRECT)})

\* lines 122-133: x -> 0-based index of the last column named prefix<x>
FieldMapOf(h, prefix) ==
    LET cols == {k \in 0..(Len(h) - 1) : MatchesNumbered(h[k + 1], prefix)}
        keys == {NumberOf(h[k + 1], prefix) : k \in cols}
    IN  [x \in keys |->
            CHOOSE k \in cols :
                /\ NumberOf(h[k + 1], prefix) = x
                /\ \A m \in cols : NumberOf(h[m + 1], prefix) = x => m <= k]

\* row[idx] ?? ''
RowAt(row, idx) == IF idx >= 0 /\ idx < Len(row) THEN row[idx + 1] ELSE <<>>

\* header[j] ?? `#${j + 1}`
FieldNameAt(h, j) == NameOrPlaceholder([given |-> TRUE, names |-> h], j, j + 1)

Finding(lineNo, field, name, msg, args) ==
    [line |-> lineNo, field |-> field, name |-> name, msg |-> msg, args |-> args]

\* line 157: /(^|[^"])""(?!")/.test(field)
HasLoneDoubledQuote(f) ==
    \E p \in 1..(Len(f) - 1) :
        /\ f[p] = QUOTE /\ f[p + 1] = QUOTE
        /\ (p = 1 \/ f[p - 1] # QUOTE)
        /\ (p + 2 > Len(f) \/ f[p + 2] # QUOTE)

\* lines 134-140
RowCountFindings(headerSeen, expected, row, lineNo) ==
    IF headerSeen /\ Len(row) # expected
    THEN <<Finding(lineNo, 0, RowName, MsgInconsistent, <<expected, Len(row)>>)>>
    ELSE <<>>

\* lines 144-171: the Findings of field j (0-based)
OneFieldFindings(row, quotedFields, h, j, lineNo) ==
    LET field == row[j + 1]
        quoted == quotedFields[j + 1]
        fieldName == FieldNameAt(h, j)
    IN  (IF (Includes(field, COMMA) \/ Includes(field, CR)
               \/ Includes(field, LF) \/ Includes(field, QUOTE)) /\ ~quoted
         THEN <<Finding(lineNo, j + 1, fieldName, MsgMustBeQuoted, <<>>)>>
         ELSE <<>>)
        \o
        (IF quoted /\ HasLoneDoubledQuote(field)
         THEN <<Finding(lineNo, j + 1, fieldName, MsgImproperEscape, <<>>)>>
         ELSE <<>>)
        \o
        (IF Len(field) > MaxFieldLength
         THEN <<Finding(lineNo, j + 1, fieldName, MsgTooLong, <<Len(field)>>)>>
         ELSE <<>>)

\* lines 143-172
FieldFindings(row, quotedFields, h, lineNo) ==
    Flatten([k \in 1..Len(row) |->
                OneFieldFindings(row, quotedFields, h, k - 1, lineNo)])

\* line 178, without the case normalisation
CorrectValue_CaseSensitive(row, idx) == Trim(RowAt(row, idx))

\* line 178: (row[idx] ?? '').trim().toUpperCase()
CorrectValue(row, idx) == ToUpperCase(Trim(RowAt(row, idx)))

TRUE_ == <<"T","R","U","E">>
FALSE_ == <<"F","A","L","S","E">>

\* lines 175-196; idx is the loop index i
CorrectnessFindings(headerSeen, correctIdx, h, row, idx) ==
    IF headerSeen /\ Len(correctIdx) > 0 /\ idx > 0
    THEN LET bad(c) == LET val == CorrectValue(row, c)
                       IN  val # <<>> /\ val # TRUE_ /\ val # FALSE_
             hasTrue == \E k \in 1..Len(correctIdx) :
                            CorrectValue(row, correctIdx[k]) = TRUE_
         IN  Flatten([k \in 1..Len(correctIdx) |->
                        IF bad(correctIdx[k])
                        THEN <<Finding(idx + 1, correctIdx[k] + 1,
                                       HeaderName(h[correctIdx[k] + 1]),
                                       MsgTrueOrFalse, <<>>)>>
                        ELSE <<>>])
             \o
             (IF ~hasTrue
              THEN <<Finding(idx + 1, 0, RowName, MsgNeedTrue, <<>>)>>
              ELSE <<>>)
    ELSE <<>>

\* lines 199-217, reporting at the choice column instead
CorrectEmptyFindings_AtChoice(headerSeen, choiceMap, correctMap, row, idx) ==
    IF headerSeen /\ idx > 0
    THEN LET keys == SortedKeys(DOMAIN choiceMap)
         IN  Flatten([k \in 1..Len(keys) |->
                IF /\ keys[k] \in DOMAIN correctMap
                   /\ Trim(RowAt(row, choiceMap[keys[k]])) # <<>>
                   /\ Trim(RowAt(row, correctMap[keys[k]])) = <<>>
                THEN <<Finding(idx + 1, choiceMap[keys[k]] + 1,
                               CorrectName(keys[k]), MsgCorrectEmpty, <<>>)>>
                ELSE <<>>])
    ELSE <<>>

\* lines 199-217
CorrectEmptyFindings(headerSeen, choiceMap, correctMap, row, idx) ==
    IF headerSeen /\ idx > 0
    THEN LET keys == SortedKeys(DOMAIN choiceMap)
         IN  Flatten([k \in 1..Len(keys) |->
                IF /\ keys[k] \in DOMAIN correctMap
                   /\ Trim(RowAt(row, choiceMap[keys[k]])) # <<>>
                   /\ Trim(RowAt(row, correctMap[keys[k]])) = <<>>
                THEN <<Finding(idx + 1, correctMap[keys[k]] + 1,
                               CorrectName(keys[k]), MsgCorrectEmpty, <<>>)>>
                ELSE <<>>])
    ELSE <<>>

\* lines 220-238
ChoiceEmptyFindings(headerSeen, choiceMap, correctMap, row, idx) ==
    IF headerSeen /\ idx > 0
    THEN LET keys == SortedKeys(DOMAIN correctMap)
         IN  Flatten([k \in 1..Len(keys) |->
                IF /\ keys[k] \in DOMAIN choiceMap
                   /\ Trim(RowAt(row, correctMap[keys[k]])) # <<>>
                   /\ Trim(RowAt(row, choiceMap[keys[k]])) = <<>>
                THEN <<Finding(idx + 1, choiceMap[keys[k]] + 1,
                               ChoiceName(keys[k]), MsgChoiceEmpty, <<>>)>>
                ELSE <<>>])
    ELSE <<>>

\* lines 241-247
ParseErrorFindings(parseErrors, lineNo) ==
    [k \in 1..Len(parseErrors) |->
        Finding(lineNo, parseErrors[k].field, parseErrors[k].name,
                parseErrors[k].msg, <<>>)]

\* the pushes of one iteration, parse errors pushed first
PushOrder_ParseErrorsFirst(rowCount, fields, correctness, pairing, parse) ==
    parse \o rowCount \o fields \o correctness \o pairing

\* the order in which one iteration of the loop (lines 105-248) pushes
PushOrder(rowCount, fields, correctness, pairing, parse) ==
    rowCount \o fields \o correctness \o pairing \o parse

(***************************************************************************)
(* validateCsvString: the locals of lines 96-103 (null is -1), and one     *)
(* iteration of the loop of lines 105-248 on a non-blank line.             *)
(***************************************************************************)
ValInit ==
    [errors |-> <<>>, expectedNumFields |-> -1, headerChecked |-> FALSE,
     header |-> <<>>, correctFieldIndexes |-> <<>>,
     choiceFieldMap |-> <<>>, correctFieldMap |-> <<>>]

ProcessLine(v, ln, idx) ==
    LET p == parseCsvLineWithErrors(ln, [given |-> TRUE, names |-> v.header])
        row == p.row
        first == ~v.headerChecked
        \* lines 113-133
        h == IF first THEN row ELSE v.header
        expected == IF first THEN Len(row) ELSE v.expectedNumFields
        correctIdx == IF first THEN CorrectIndexesOf(row) ELSE v.correctFieldIndexes
        choiceMap == IF first THEN FieldMapOf(row, CHOICE) ELSE v.choiceFieldMap
        correctMap == IF first THEN FieldMapOf(row, CORRECT) ELSE v.correctFieldMap
    IN  [errors |-> v.errors \o PushOrder(
                        RowCountFindings(~first, expected, row, idx + 1),
                        FieldFindings(row, p.quotedFields, h, idx + 1),
                        CorrectnessFindings(TRUE, correctIdx, h, row, idx),
                        CorrectEmptyFindings(TRUE, choiceMap, correctMap, row, idx)
                          \o ChoiceEmptyFindings(TRUE, choiceMap, correctMap, row, idx),
                        ParseErrorFindings(p.parseErrors, idx + 1)),
         expectedNumFields |-> expected,
         headerChecked |-> TRUE,
         header |-> h,
         correctFieldIndexes |-> correctIdx,
         choiceFieldMap |-> choiceMap,
         correctFieldMap |-> correctMap]

\* the loop from index idx to the end of lns, and the return of line 249
RECURSIVE RunLines(_, _, _)
RunLines(v, lns, idx) ==
    IF idx >= Len(lns) THEN v.errors
    ELSE IF IsBlankLine(lns[idx + 1]) THEN RunLines(v, lns, idx + 1)
    ELSE RunLines(ProcessLine(v, lns[idx + 1], idx), lns, idx + 1)

validateCsvString(content) == RunLines(ValInit, Split(content), 0)

(***************************************************************************)
(* Inputs.                                                                 *)
(***************************************************************************)
TokChars == {"a", COMMA, QUOTE}

TokLines == UNION {[1..n -> TokChars] : n \in 0..MaxLineLen}

HeaderArgs ==
    {[given |-> FALSE, names |-> <<>>],
     [given |-> TRUE, names |-> <<>>],
     [given |-> TRUE, names |-> << <<"i","d">> >>]}

RECURSIVE Join(_, _)
Join(ss, sep) ==
    IF ss = <<>> THEN <<>>
    ELSE IF Len(ss) = 1 THEN ss[1]
    ELSE ss[1] \o sep \o Join(Tail(ss), sep)

W_id == <<"i","d">>
W_choice1 == <<"c","h","o","i","c","e","1">>
W_correct1 == <<"c","o","r","r","e","c","t","1">>
W_correct2 == <<"c","o","r","r","e","c","t","2">>
W_Correct2 == <<"C","o","r","r","e","c","t","2">>
W_1 == <<"1">>
W_yes == <<"y","e","s">>
W_FALSE == <<"F","A","L","S","E">>
W_true == <<" ","t","r","u","e">>

L_blank == <<>>
L_spaces == <<" ">>
L_headerChoice == Join(<<W_id, W_choice1, W_correct1>>, <<COMMA>>)
L_headerCorrect == Join(<<W_id, W_correct1, W_correct2>>, <<COMMA>>)
L_headerTwoFlags == Join(<<W_choice1, W_correct1, W_Correct2>>, <<COMMA>>)
L_choiceNoCorrect == Join(<<W_1, W_yes, <<>> >>, <<COMMA>>)
L_allFalse == Join(<<W_1, W_FALSE, W_FALSE>>, <<COMMA>>)
L_good == Join(<<W_1, W_yes, W_true>>, <<COMMA>>)
L_correctNoChoice == Join(<<W_1, <<>>, W_true>>, <<COMMA>>)
L_messy == Join(<< <<"x", CR, "y">>, W_yes, <<>>, <<"a", QUOTE, "b">> >>, <<COMMA>>)
L_unclosed == Join(<< <<QUOTE, "u", "n">>, W_1 >>, <<COMMA>>)

LinePool ==
    {L_blank, L_spaces, L_headerChoice, L_headerCorrect, L_headerTwoFlags,
     L_choiceNoCorrect,
     L_allFalse, L_good, L_correctNoChoice, L_messy, L_unclosed}

Terminators == {<<LF>>, <<CR, LF>>}

Documents ==
    {Join(ls, t) : ls \in UNION {[1..n -> LinePool] : n \in 1..MaxLines},
                   t \in Terminators}

(***************************************************************************)
(* The state machine.                                                      *)
(***************************************************************************)
InitParse ==
    /\ call = "parse"
    /\ pc = "loop"
    /\ line \in TokLines
    /\ hdr \in HeaderArgs
    /\ tok = TokInit
    /\ csvContent = <<>>
    /\ lines = <<>>
    /\ i = 0
    /\ locals = ValInit

InitValidate ==
    /\ call = "validate"
    /\ pc = "loop"
    /\ line = <<>>
    /\ hdr = [given |-> FALSE, names |-> <<>>]
    /\ tok = TokInit
    /\ csvContent \in Documents
    /\ lines = Split(csvContent)
    /\ i = 0
    /\ locals = ValInit

Init == InitParse \/ InitValidate

\* --- parseCsvLineWithErrors, one loop iteration per action ---
InLoop(b) ==
    /\ call = "parse" /\ pc = "loop"
    /\ tok.i <= Len(line)
    /\ Branch(tok, line) = b

EndOfField ==
    /\ InLoop("endOfField")
    /\ tok' = EndOfFieldStep(tok, line)
    /\ UNCHANGED <<call, pc, line, hdr, valVars>>

OpenQuote ==
    /\ InLoop("openQuote")
    /\ tok' = OpenQuoteStep(tok)
    /\ UNCHANGED <<call, pc, line, hdr, valVars>>

EscapedQuote ==
    /\ InLoop("escapedQuote")
    /\ tok' = EscapedQuoteStep(tok)
    /\ UNCHANGED <<call, pc, line, hdr, valVars>>

CloseQuote ==
    /\ InLoop("closeQuote")
    /\ tok' = CloseQuoteStep(tok)
    /\ UNCHANGED <<call, pc, line, hdr, valVars>>

UnescapedQuote ==
    /\ InLoop("unescapedQuote")
    /\ tok' = UnescapedQuoteStep(tok, hdr)
    /\ UNCHANGED <<call, pc, line, hdr, valVars>>

AppendChar ==
    /\ InLoop("appendChar")
    /\ tok' = AppendCharStep(tok, line)
    /\ UNCHANGED <<call, pc, line, hdr, valVars>>

ReturnParse ==
    /\ call = "parse" /\ pc = "loop"
    /\ tok.i > Len(line)
    /\ tok' = CheckUnclosed(tok, hdr)
    /\ pc' = "done"
    /\ UNCHANGED <<call, line, hdr, valVars>>

\* --- validateCsvString, one loop iteration per action ---
Iterate ==
    /\ locals' = ProcessLine(locals, lines[i + 1], i)
    /\ i' = i + 1
    /\ UNCHANGED <<call, pc, tokVars, csvContent, lines>>

SkipBlankLine ==
    /\ call = "validate" /\ pc = "loop"
    /\ i < Len(lines)
    /\ IsBlankLine(lines[i + 1])
    /\ i' = i + 1
    /\ UNCHANGED <<call, pc, tokVars, csvContent, lines, locals>>

HeaderLine ==
    /\ call = "validate" /\ pc = "loop"
    /\ i < Len(lines)
    /\ ~IsBlankLine(lines[i + 1])
    /\ ~headerChecked
    /\ Iterate

RowLine ==
    /\ call = "validate" /\ pc = "loop"
    /\ i < Len(lines)
    /\ ~IsBlankLine(lines[i + 1])
    /\ headerChecked
    /\ Iterate

ReturnErrors ==
    /\ call = "validate" /\ pc = "loop"
    /\ i >= Len(lines)
    /\ pc' = "done"
    /\ UNCHANGED <<call, tokVars, valVars>>

Next ==
    \/ EndOfField
    \/ OpenQuote
    \/ EscapedQuote
    \/ CloseQuote
    \/ UnescapedQuote
    \/ AppendChar
    \/ ReturnParse
    \/ SkipBlankLine
    \/ HeaderLine
    \/ RowLine
    \/ ReturnErrors

Spec == Init /\ [][Next]_vars

(***************************************************************************)
(* Vocabulary of the properties.                                           *)
(***************************************************************************)
ParseDone == call = "parse" /\ pc = "done"
ValidateDone == call = "validate" /\ pc = "done"

Count(S) == Cardinality(S)

\* the Findings (as indexes into errors) reported on physical line n
OnLine(n) == {k \in 1..Len(errors) : errors[k].line = n}

\* a line made of white space only
AllSpace(ln) == \A k \in 1..Len(ln) : IsSpace(ln[k])

\* 1-based positions of the lines that are not blank
NonBlankPositions == {n \in 1..Len(lines) : ~AllSpace(lines[n])}

\* 1-based position of the header line (0 when every line is blank)
HeaderPosition ==
    IF NonBlankPositions = {} THEN 0
    ELSE CHOOSE n \in NonBlankPositions : \A m \in NonBlankPositions : n <= m

\* 1-based positions of the data rows
RowPositions == {n \in NonBlankPositions : n > HeaderPosition}

\* the field values of physical line n
RowOf(n) == parseCsvLineWithErrors(lines[n], [given |-> FALSE, names |-> <<>>]).row

\* 0-based indexes of the header's correct<N> columns
CorrectColumns == {c \in 0..(Len(header) - 1) : MatchesNumbered(header[c + 1], CORRECT)}

\* some correct<N> field of the row is TRUE, trimmed and case-insensitively
SomeCorrectIsTrue(row) ==
    \E c \in CorrectColumns : ToUpperCase(Trim(RowAt(row, c))) = TRUE_

\* the step of section 4.2 a Finding comes from
StepOf(f) ==
    CASE f.msg = MsgInconsistent -> 2
      [] f.msg \in {MsgMustBeQuoted, MsgImproperEscape, MsgTooLong} -> 3
      [] f.msg \in {MsgTrueOrFalse, MsgNeedTrue} -> 4
      [] f.msg \in {MsgCorrectEmpty, MsgChoiceEmpty} -> 5
      [] OTHER -> 6

\* content in which every literal quote is written as a doubled quote
RECURSIVE WellEscaped(_)
WellEscaped(s) ==
    IF s = <<>> THEN TRUE
    ELSE IF s[1] # QUOTE THEN WellEscaped(Tail(s))
    ELSE Len(s) >= 2 /\ s[2] = QUOTE /\ WellEscaped(SubSeq(s, 3, Len(s)))

\* an opening quote, well-escaped content, a closing quote
WellFormedQuoted(raw) ==
    /\ Len(raw) >= 2
    /\ raw[1] = QUOTE /\ raw[Len(raw)] = QUOTE
    /\ WellEscaped(SubSeq(raw, 2, Len(raw) - 1))

(***************************************************************************)
(* C1.  The tokenizer returns exactly one more field than the number of    *)
(* commas the scan meets outside an open quote, and row, quotedFields and  *)
(* originalFields all have that length; during the scan the fields pushed  *)
(* so far are as many as those commas.                                     *)
(***************************************************************************)
C1_FieldCount ==
    call = "parse" =>
        /\ Len(tok.quotedFields) = Len(tok.result)
        /\ Len(tok.originalFields) = Len(tok.result)
        /\ (pc = "done" => Len(tok.result) = tok.commas + 1)
        /\ (pc = "loop" /\ tok.i <= Len(line) => Len(tok.result) = tok.commas)

\* a finished scan with a header, a parse error, a comma that ended a field
\* and a comma that did not
C1_Witness ==
    /\ ParseDone
    /\ hdr.given
    /\ tok.parseErrors # <<>>
    /\ tok.commas >= 1
    /\ Count({k \in 1..Len(line) : line[k] = COMMA}) > tok.commas

(***************************************************************************)
(* C2.  Joining originalFields with single commas reproduces the line,     *)
(* character for character.                                                *)
(***************************************************************************)
C2_RoundTrip ==
    ParseDone => Join(tok.originalFields, <<COMMA>>) = line

\* several fields, one of them holding a comma inside quotes
C2_Witness ==
    /\ ParseDone
    /\ Len(tok.originalFields) >= 2
    /\ \E k \in 1..Len(tok.originalFields) :
           /\ Includes(tok.originalFields[k], COMMA)
           /\ tok.quotedFields[k]

(***************************************************************************)
(* C3.  The value of every well-formed quoted field is its content with    *)
(* the surrounding quotes stripped and every doubled quote collapsed.      *)
(***************************************************************************)
C3_QuotedValue ==
    ParseDone =>
        \A k \in 1..Len(tok.originalFields) :
            WellFormedQuoted(tok.originalFields[k]) =>
                tok.result[k] = ReplaceDoubledQuotes(
                    SubSeq(tok.originalFields[k], 2, Len(tok.originalFields[k]) - 1))

(***************************************************************************)
(* C4.  A line that ends inside an open quote yields exactly one           *)
(* "Unclosed quoted field" parse error, tagged with the 1-based index of   *)
(* the last field, and still a value for that field.                       *)
(***************************************************************************)
C4_UnclosedReported ==
    ParseDone /\ tok.openAtEnd =>
        /\ Len(tok.result) >= 1
        /\ Count({k \in 1..Len(tok.parseErrors) :
                    tok.parseErrors[k].msg = MsgUnclosed}) = 1
        /\ \A k \in 1..Len(tok.parseErrors) :
               tok.parseErrors[k].msg = MsgUnclosed =>
                   tok.parseErrors[k].field = Len(tok.result)

(***************************************************************************)
(* C5.  No correctness-flag or pairing Finding is ever reported on the     *)
(* header line (the first non-blank line), wherever that line is.          *)
(***************************************************************************)
C5_HeaderExempt ==
    call = "validate" =>
        \A k \in 1..Len(errors) :
            StepOf(errors[k]) \in {4, 5} => errors[k].line # HeaderPosition

(***************************************************************************)
(* C6 as stated.  Header id,choice1,correct1 with the row 1,yes, yields    *)
(* exactly one Finding, on field 3: correct1 must not be empty.            *)
(***************************************************************************)
C6_ExactlyOne ==
    ValidateDone /\ lines = <<L_headerChoice, L_choiceNoCorrect>> =>
        /\ Len(errors) = 1
        /\ errors[1].field = 3
        /\ errors[1].msg = MsgCorrectEmpty

\* the pairs N whose choice<N> is non-blank and correct<N> blank in a row
DanglingChoices(row) ==
    {x \in DOMAIN choiceFieldMap \cap DOMAIN correctFieldMap :
        /\ Trim(RowAt(row, choiceFieldMap[x])) # <<>>
        /\ Trim(RowAt(row, correctFieldMap[x])) = <<>>}

(***************************************************************************)
(* C6 amended.  That document yields exactly two Findings on line 2: the   *)
(* row-level "at least one correct field must be TRUE" (field 0), then     *)
(* the one on field 3 saying correct1 must not be empty when choice1 is    *)
(* not empty.  For every data row and every N with choice<N> non-blank     *)
(* and correct<N> blank there is exactly one Finding of that rule for N,   *)
(* at correct<N>'s 1-based index, and the row-level Finding accompanies it *)
(* exactly when no correct<M> of the row is TRUE.                          *)
(***************************************************************************)
C6_Amended ==
    ValidateDone =>
        /\ lines = <<L_headerChoice, L_choiceNoCorrect>> =>
               errors = <<Finding(2, 0, RowName, MsgNeedTrue, <<>>),
                          Finding(2, 3, CorrectName(1), MsgCorrectEmpty, <<>>)>>
        /\ \A n \in RowPositions :
               \A x \in DanglingChoices(RowOf(n)) :
                   /\ Count({k \in OnLine(n) :
                               /\ errors[k].msg = MsgCorrectEmpty
                               /\ errors[k].name = CorrectName(x)}) = 1
                   /\ \A k \in OnLine(n) :
                          errors[k].msg = MsgCorrectEmpty /\ errors[k].name = CorrectName(x)
                              => errors[k].field = correctFieldMap[x] + 1
                   /\ Count({k \in OnLine(n) : errors[k].msg = MsgNeedTrue})
                          = IF SomeCorrectIsTrue(RowOf(n)) THEN 0 ELSE 1

\* the document of the claim, validated
C6_Witness ==
    /\ ValidateDone
    /\ lines = <<L_headerChoice, L_choiceNoCorrect>>
    /\ Len(errors) = 2

(***************************************************************************)
(* C7.  With at least one correct<N> column, every data row gets the       *)
(* row-level Finding (field 0) "at least one correct field must be TRUE"   *)
(* exactly once when none of its correct<N> fields is TRUE and never       *)
(* otherwise; for id,correct1,correct2 with 1,FALSE,FALSE it is the only   *)
(* Finding.                                                                *)
(***************************************************************************)
C7_NeedTrue ==
    ValidateDone =>
        /\ CorrectColumns # {} =>
               \A n \in RowPositions :
                   /\ Count({k \in OnLine(n) : errors[k].msg = MsgNeedTrue})
                          = IF SomeCorrectIsTrue(RowOf(n)) THEN 0 ELSE 1
                   /\ \A k \in OnLine(n) :
                          errors[k].msg = MsgNeedTrue => errors[k].field = 0
        /\ lines = <<L_headerCorrect, L_allFalse>> =>
               errors = <<Finding(2, 0, RowName, MsgNeedTrue, <<>>)>>

\* a document with a row that has a TRUE flag and a row that has none
C7_Witness ==
    /\ ValidateDone
    /\ CorrectColumns # {}
    /\ \E n \in RowPositions : SomeCorrectIsTrue(RowOf(n)) /\ OnLine(n) = {}
    /\ \E n \in RowPositions :
           /\ ~SomeCorrectIsTrue(RowOf(n))
           /\ \E k \in OnLine(n) : errors[k].msg = MsgNeedTrue

(***************************************************************************)
(* C8.  Findings are in non-decreasing order of line; within a line they   *)
(* follow the step order: row count, field content (by ascending field),   *)
(* correctness flags, pairing, parse errors.                               *)
(***************************************************************************)
C8_Ordered ==
    call = "validate" =>
        \A k \in 1..(Len(errors) - 1) :
            /\ errors[k].line <= errors[k + 1].line
            /\ errors[k].line = errors[k + 1].line =>
                   /\ StepOf(errors[k]) <= StepOf(errors[k + 1])
                   /\ StepOf(errors[k]) = 3 /\ StepOf(errors[k + 1]) = 3 =>
                          errors[k].field <= errors[k + 1].field

\* a line with a Finding of every step, after a line with a Finding
C8_Witness ==
    /\ ValidateDone
    /\ \E n \in 2..Len(lines) :
           /\ {StepOf(errors[k]) : k \in OnLine(n)} = {2, 3, 4, 5, 6}
           /\ \E m \in 1..(n - 1) : OnLine(m) # {}

\* the lines of the document joined back with the given separators
RECURSIVE JoinWith(_, _)
JoinWith(ss, seps) ==
    IF Len(ss) = 1 THEN ss[1]
    ELSE ss[1] \o seps[1] \o JoinWith(Tail(ss), Tail(seps))

\* the non-blank lines in document order, and their physical positions
NonBlankOrder == SortedKeys(NonBlankPositions)
Compacted == [k \in 1..Len(NonBlankOrder) |-> lines[NonBlankOrder[k]]]

\* the Findings of the document with its blank lines removed, each moved
\* to the physical position its line has in the document
CompactedFindings ==
    LET ce == RunLines(ValInit, Compacted, 0)
    IN  [k \in 1..Len(ce) |-> [ce[k] EXCEPT !.line = NonBlankOrder[@]]]

\* the Findings a header line owes only to lying below a blank line
BelowBlankOnly(f) == f.line = HeaderPosition /\ StepOf(f) \in {4, 5}

(***************************************************************************)
(* C9.  Blank lines produce no Finding, are never the header and never a   *)
(* row; every Finding carries the 1-based physical position of its line    *)
(* in the document split on \n or \r\n; the header and the rows are those  *)
(* of the document without its blank lines, so the row-count, content and  *)
(* parse Findings (and the flag and pairing Findings of the rows) are      *)
(* those of that document with only their line numbers shifted.            *)
(***************************************************************************)
C9_BlankLines ==
    ValidateDone =>
        /\ \E seps \in [1..(Len(lines) - 1) -> Terminators] :
               JoinWith(lines, seps) = csvContent
        /\ \A n \in 1..Len(lines) : ~Includes(lines[n], LF)
        /\ \A k \in 1..Len(errors) : errors[k].line \in NonBlankPositions
        /\ headerChecked = (NonBlankPositions # {})
        /\ headerChecked =>
               /\ header = RowOf(HeaderPosition)
               /\ expectedNumFields = Len(header)
        /\ SelectSeq(errors, LAMBDA f : ~BelowBlankOnly(f))
               = SelectSeq(CompactedFindings, LAMBDA f : ~BelowBlankOnly(f))

\* a white-space line between the header and a row that has a Finding,
\* in a document whose lines end in \r\n
C9_Witness ==
    /\ ValidateDone
    /\ Includes(csvContent, CR) /\ Len(lines) = 3
    /\ lines[1] = L_headerChoice
    /\ lines[2] = L_spaces
    /\ OnLine(3) # {}

(***************************************************************************)
(* C10.  A field the tokenizer marks as not quoted has a value with no     *)
(* comma and no double quote; so a "must be quoted" Finding is only ever   *)
(* reported for a field whose value holds a carriage return, and that      *)
(* value holds no comma, line feed or double quote.                        *)
(***************************************************************************)
C10_UnquotedClean ==
    /\ ParseDone =>
           \A k \in 1..Len(tok.result) :
               ~tok.quotedFields[k] =>
                   ~Includes(tok.result[k], COMMA) /\ ~Includes(tok.result[k], QUOTE)
    /\ ValidateDone =>
           \A k \in 1..Len(errors) :
               errors[k].msg = MsgMustBeQuoted =>
                   LET value == RowOf(errors[k].line)[errors[k].field]
                   IN  /\ Includes(value, CR)
                       /\ ~Includes(value, COMMA)
                       /\ ~Includes(value, LF)
                       /\ ~Includes(value, QUOTE)

\* a line with a "must be quoted" Finding and a stray-quote parse error
C10_Witness ==
    /\ ValidateDone
    /\ \E n \in 1..Len(lines) :
           /\ \E k \in OnLine(n) : errors[k].msg = MsgMustBeQuoted
           /\ \E k \in OnLine(n) : errors[k].msg = MsgUnescapedQuote

====
